---- MODULE Spec2Model ----
(***************************************************************************)
(* SurrealSessionStore (src/src/lib.rs): a tower-sessions SessionStore     *)
(* over one SurrealDB table.  The table is a map from the text of a        *)
(* session id to a row SessionRecord {data: Vec<u8>, expiry_date: i64}.    *)
(* Every store method issues one backend call, except create, which        *)
(* probes in a loop and then saves.                                        *)
(***************************************************************************)
EXTENDS Integers, Sequences, FiniteSets, TLC

\* ------------------------------------------------------------------ bounds
\* Clock ticks per second: instants are counted in ticks, so an instant has
\* a sub-second part (OffsetDateTime and time::now() carry nanoseconds).
Res == 2
\* Record expiries range over the instants 0..MaxTick.
MaxTick == 4
\* The clock runs from instant 0 to instant MaxClock.
MaxClock == 3
\* Longest proper prefix of a payload that a foreign writer leaves behind.
MaxTrunc == 1

\* ------------------------------------------------------------------ values
Ids == {1, 2}
\* Callers of the store; the store is Clone and shared.
Procs == {1, 2}
DataKeys == {"key"}
DataVals == {"value", "new value"}
\* Record.data: HashMap<String, Value>, as a set of <<key, value>> pairs
\* with at most one pair per key.
DataSet == {d \in SUBSET (DataKeys \X DataVals) :
              \A x \in d, y \in d : x[1] = y[1] => x = y}
\* A data value that rmp_serde::to_vec rejects.
Unserializable == "unserializable"
Instants == 0..MaxTick
\* tower_sessions_core::session::Record {id, data, expiry_date}
Records == [id : Ids, data : DataSet, expiry_date : Instants]

None == <<>>
Some(x) == <<x>>
Ok(x) == [ok |-> TRUE, val |-> x]
Err(kind) == [ok |-> FALSE, err |-> kind]
Unit == "()"

\* ------------------------------------------------------------------ codec
\* The whole seconds of an instant, rounded up.
unix_timestamp_ceil(t) == (t + Res - 1) \div Res
\* OffsetDateTime::unix_timestamp(): whole seconds, sub-second part dropped.
unix_timestamp(t) == t \div Res
\* time::unix(time::now()) in the two queries.
time_unix_now(now) == now \div Res

\* Id::to_string(): the text used as the record key of the row.
IdText == <<"AQ", "Ag", "Aw", "BA">>
to_string(id) == IdText[id]
Keys == {to_string(i) : i \in Ids}

\* MessagePack marker of a three-element array (the struct Record).
ArrayTag == 147
NilTag == 192
\* rmp_serde::to_vec(session): the whole record, id included.
to_vec(session) ==
  IF \E x \in session.data : x[2] = Unserializable
  THEN Err("rmp_serde::encode::Error")
  ELSE Ok(<<ArrayTag, session.id, session.data, session.expiry_date>>)
\* A decoder that reads the expiry back at whole-second precision.
from_slice_seconds(bytes) ==
  IF Len(bytes) = 4 /\ bytes[1] = ArrayTag
  THEN Ok([id |-> bytes[2], data |-> bytes[3],
           expiry_date |-> (bytes[4] \div Res) * Res])
  ELSE Err("Decode")
\* rmp_serde::from_slice(bytes)
from_slice(bytes) ==
  IF Len(bytes) = 4 /\ bytes[1] = ArrayTag
  THEN Ok([id |-> bytes[2], data |-> bytes[3], expiry_date |-> bytes[4]])
  ELSE Err("Decode")

\* An encoder that copies the expiry instant at full precision into the
\* integer column instead of its unix seconds.
from_session_instant(session) ==
  LET bytes == to_vec(session) IN
  IF bytes.ok
  THEN Ok([data |-> bytes.val, expiry_date |-> session.expiry_date])
  ELSE Err("Decode")

\* SessionRecord::from_session
from_session(session) ==
  LET bytes == to_vec(session) IN
  IF bytes.ok
  THEN Ok([data |-> bytes.val,
           expiry_date |-> unix_timestamp(session.expiry_date)])
  ELSE Err("Decode")

\* SessionRecord::to_session
to_session(row) == from_slice(row.data)

\* ---------------------------------------------------------------- backend
\* A write that inserts when the key is free and leaves an existing row alone.
upsert_insert_only(table, key, row) ==
  IF table[key] = None THEN [table EXCEPT ![key] = Some(row)] ELSE table
\* A write that never replaces: when the key is taken the row goes under
\* another key that is free.
upsert_append(table, key, row) ==
  IF table[key] = None THEN [table EXCEPT ![key] = Some(row)]
  ELSE IF \E j \in DOMAIN table : table[j] = None
       THEN [table EXCEPT ![CHOOSE j \in DOMAIN table : table[j] = None] = Some(row)]
       ELSE table
\* A write that replaces the payload of an existing row and keeps the expiry
\* integer the row had.
upsert_keep_expiry(table, key, row) ==
  IF table[key] = None THEN [table EXCEPT ![key] = Some(row)]
  ELSE [table EXCEPT ![key] =
          Some([data |-> row.data, expiry_date |-> table[key][1].expiry_date])]
\* client.upsert((table, key)).content(row): insert or replace the whole row.
upsert(table, key, row) == [table EXCEPT ![key] = Some(row)]
\* client.select((table, key)) / client.delete((table, key))
select(table, key) == table[key]
delete_row(table, key) == [table EXCEPT ![key] = None]
\* A sweep whose predicate matches no row.
delete_where_none(table, now) == table
\* A sweep whose predicate leaves out the boundary, expiry_date < now.
delete_where_before(table, now) ==
  [k \in DOMAIN table |->
     IF table[k] # None /\ table[k][1].expiry_date < time_unix_now(now)
     THEN None ELSE table[k]]
\* delete type::table($table) where expiry_date <= time::unix(time::now())
delete_where_expired(table, now) ==
  [k \in DOMAIN table |->
     IF table[k] # None /\ table[k][1].expiry_date <= time_unix_now(now)
     THEN None ELSE table[k]]
\* A read whose predicate leaves out the second after now.
select_after_next(table, key, now) ==
  IF table[key] # None /\ table[key][1].expiry_date > time_unix_now(now) + 1
  THEN table[key] ELSE None
\* A read whose predicate takes in the boundary, expiry_date >= now.
select_not_before(table, key, now) ==
  IF table[key] # None /\ table[key][1].expiry_date >= time_unix_now(now)
  THEN table[key] ELSE None
\* select expiry_date, data from type::record($table, $id)
\*   where expiry_date > time::unix(time::now())        ... .take(0)
select_unexpired(table, key, now) ==
  IF table[key] # None /\ table[key][1].expiry_date > time_unix_now(now)
  THEN table[key] ELSE None

\* ------------------------------------------------------------------ state
VARIABLES
  db,       \* the session table: key -> None | Some(row)
  clock,    \* the current instant, in ticks
  pc,       \* per caller: "idle", or its position inside create
  session,  \* per caller: the &mut Record of its create call
  cand,     \* per caller: the id its create call was entered with
  ret,      \* per caller: its latest call [op, arg, res, saw]; create's arg
            \* is the record as create left it and the id it was entered
            \* with; saw is what the call's write met in the table
  fault     \* whether the backend fails the next call it receives

vars == <<db, clock, pc, session, cand, ret, fault>>

Call(op, arg, res, saw) == [op |-> op, arg |-> arg, res |-> res, saw |-> saw]
NoCall == Call("none", None, Ok(Unit), None)
\* What an upsert of row at key meets in the table.
Met(table, key, row) ==
  IF table[key] = None THEN Some("absent")
  ELSE IF table[key] = Some(row) THEN Some("same") ELSE Some("different")
\* The expiry integers of the rows a sweep at now deletes.
Swept(table, now) ==
  {table[k][1].expiry_date :
     k \in {j \in DOMAIN table :
              table[j] # None /\ table[j][1].expiry_date <= time_unix_now(now)}}

Init ==
  /\ db = [k \in Keys |-> None]
  /\ clock = 0
  /\ pc = [p \in Procs |-> "idle"]
  /\ session = [p \in Procs |-> None]
  /\ cand = [p \in Procs |-> None]
  /\ ret = [p \in Procs |-> NoCall]
  /\ fault = FALSE

\* ------------------------------------------------------------- operations
\* SessionStore::save
save(p, r) ==
  /\ pc[p] = "idle"
  /\ LET row == from_session(r) IN
     IF ~row.ok
     THEN /\ db' = db
          /\ ret' = [ret EXCEPT ![p] = Call("save", Some(r), Err(row.err), None)]
          /\ fault' = fault
     ELSE IF fault
     THEN /\ db' = db
          /\ ret' = [ret EXCEPT ![p] = Call("save", Some(r), Err("Backend"), None)]
          /\ fault' = FALSE
     ELSE /\ db' = upsert(db, to_string(r.id), row.val)
          /\ ret' = [ret EXCEPT ![p] =
                       Call("save", Some(r), Ok(Unit),
                            Met(db, to_string(r.id), row.val))]
          /\ fault' = fault
  /\ UNCHANGED <<clock, pc, session, cand>>

\* A load that swallows a decode failure and answers absent.
load_result_lenient(record) ==
  IF record = None THEN Ok(None)
  ELSE LET s == to_session(record[1]) IN
       IF s.ok THEN Ok(Some(s.val)) ELSE Ok(None)
\* A load that reports a missing row as a backend error.
load_result_strict(record) ==
  IF record = None THEN Err("Backend")
  ELSE LET s == to_session(record[1]) IN
       IF s.ok THEN Ok(Some(s.val)) ELSE Err(s.err)
\* The value load returns for the row the query produced.
load_result(record) ==
  IF record = None THEN Ok(None)
  ELSE LET s == to_session(record[1]) IN
       IF s.ok THEN Ok(Some(s.val)) ELSE Err(s.err)

\* What load(session_id) returns on a table at an instant.
load_value(table, id, now) ==
  load_result(select_unexpired(table, to_string(id), now))

\* A load that removes the row it finds expired.
load_evicting(p, id) ==
  /\ pc[p] = "idle"
  /\ ret' = [ret EXCEPT ![p] =
               Call("load", Some(id),
                    IF fault THEN Err("Backend") ELSE load_value(db, id, clock),
                    None)]
  /\ db' = IF ~fault /\ db[to_string(id)] # None
               /\ db[to_string(id)][1].expiry_date <= time_unix_now(clock)
            THEN delete_row(db, to_string(id)) ELSE db
  /\ fault' = FALSE
  /\ UNCHANGED <<clock, pc, session, cand>>

\* SessionStore::load
load(p, id) ==
  /\ pc[p] = "idle"
  /\ ret' = [ret EXCEPT ![p] =
               Call("load", Some(id),
                    IF fault THEN Err("Backend") ELSE load_value(db, id, clock),
                    None)]
  /\ fault' = FALSE
  /\ UNCHANGED <<db, clock, pc, session, cand>>

\* A delete that reports a missing row as a backend error.
delete_strict(p, id) ==
  /\ pc[p] = "idle"
  /\ db' = delete_row(db, to_string(id))
  /\ ret' = [ret EXCEPT ![p] =
               IF db[to_string(id)] = None
               THEN Call("delete", Some(id), Err("Backend"), Some("absent"))
               ELSE Call("delete", Some(id), Ok(Unit), Some("present"))]
  /\ UNCHANGED <<clock, pc, session, cand, fault>>

\* SessionStore::delete
delete(p, id) ==
  /\ pc[p] = "idle"
  /\ IF fault
     THEN /\ db' = db
          /\ ret' = [ret EXCEPT ![p] = Call("delete", Some(id), Err("Backend"), None)]
     ELSE /\ db' = delete_row(db, to_string(id))
          /\ ret' = [ret EXCEPT ![p] =
                       Call("delete", Some(id), Ok(Unit),
                            IF db[to_string(id)] = None THEN Some("absent")
                            ELSE Some("present"))]
  /\ fault' = FALSE
  /\ UNCHANGED <<clock, pc, session, cand>>

\* ExpiredDeletion::delete_expired
delete_expired(p) ==
  /\ pc[p] = "idle"
  /\ IF fault
     THEN /\ db' = db
          /\ ret' = [ret EXCEPT ![p] =
                       Call("delete_expired", Some(time_unix_now(clock)),
                            Err("Backend"), None)]
     ELSE /\ db' = delete_where_expired(db, clock)
          /\ ret' = [ret EXCEPT ![p] =
                       Call("delete_expired", Some(time_unix_now(clock)), Ok(Unit),
                            Some(Swept(db, clock)))]
  /\ fault' = FALSE
  /\ UNCHANGED <<clock, pc, session, cand>>

\* SessionStore::create, entered with the caller's record.
create_call(p, r) ==
  /\ pc[p] = "idle"
  /\ pc' = [pc EXCEPT ![p] = "probe"]
  /\ session' = [session EXCEPT ![p] = Some(r)]
  /\ cand' = [cand EXCEPT ![p] = Some(r.id)]
  /\ ret' = [ret EXCEPT ![p] = Call("pending", None, Ok(Unit), None)]
  /\ UNCHANGED <<db, clock, fault>>

\* A probe that asks for an unexpired row, as load does, and so takes the
\* key of an expired row for free.
create_probe_unexpired(p) ==
  /\ pc[p] = "probe"
  /\ IF select_unexpired(db, to_string(session[p][1].id), clock) # None
     THEN /\ \E fresh \in Ids :
               session' = [session EXCEPT ![p] = Some([@[1] EXCEPT !.id = fresh])]
          /\ pc' = pc
     ELSE /\ pc' = [pc EXCEPT ![p] = "save"]
          /\ session' = session
  /\ UNCHANGED <<db, clock, cand, ret, fault>>

\* create's probe, taking a failed select for an id without a row.
create_probe_swallow(p) ==
  /\ pc[p] = "probe"
  /\ IF ~fault /\ select(db, to_string(session[p][1].id)) # None
     THEN /\ \E fresh \in Ids :
               session' = [session EXCEPT ![p] = Some([@[1] EXCEPT !.id = fresh])]
          /\ pc' = pc
     ELSE /\ pc' = [pc EXCEPT ![p] = "save"]
          /\ session' = session
  /\ fault' = FALSE
  /\ UNCHANGED <<db, clock, cand, ret>>

\* create's probe, free to generate another id although the probe found
\* none.
create_probe_restless(p) ==
  /\ pc[p] = "probe"
  /\ \/ /\ \E fresh \in Ids :
            session' = [session EXCEPT ![p] = Some([@[1] EXCEPT !.id = fresh])]
        /\ pc' = pc
     \/ /\ select(db, to_string(session[p][1].id)) = None
        /\ pc' = [pc EXCEPT ![p] = "save"]
        /\ session' = session
  /\ UNCHANGED <<db, clock, cand, ret, fault>>

\* One evaluation of the while condition: the probe, and on a hit the body
\* session.id = Id::default(), a fresh random id.
create_probe(p) ==
  /\ pc[p] = "probe"
  /\ IF fault
     THEN /\ pc' = [pc EXCEPT ![p] = "idle"]
          /\ session' = [session EXCEPT ![p] = None]
          /\ cand' = [cand EXCEPT ![p] = None]
          /\ ret' = [ret EXCEPT ![p] =
                       Call("create", <<session[p][1], cand[p][1]>>,
                            Err("Backend"), Some("probe"))]
     ELSE /\ IF select(db, to_string(session[p][1].id)) # None
             THEN /\ \E fresh \in Ids :
                       session' = [session EXCEPT ![p] =
                                     Some([@[1] EXCEPT !.id = fresh])]
                  /\ pc' = pc
             ELSE /\ pc' = [pc EXCEPT ![p] = "save"]
                  /\ session' = session
          /\ UNCHANGED <<cand, ret>>
  /\ fault' = FALSE
  /\ UNCHANGED <<db, clock>>

\* create's save as an insert that a row written since the probe defeats.
create_save_insert(p) ==
  /\ pc[p] = "save"
  /\ LET r == session[p][1]
         row == from_session(r) IN
     IF row.ok /\ db[to_string(r.id)] = None
     THEN /\ db' = upsert(db, to_string(r.id), row.val)
          /\ ret' = [ret EXCEPT ![p] =
                       Call("create", <<r, cand[p][1]>>, Ok(Unit), Some("absent"))]
     ELSE /\ db' = db
          /\ ret' = [ret EXCEPT ![p] =
                       Call("create", <<r, cand[p][1]>>, Err("Backend"), None)]
  /\ pc' = [pc EXCEPT ![p] = "idle"]
  /\ session' = [session EXCEPT ![p] = None]
  /\ cand' = [cand EXCEPT ![p] = None]
  /\ UNCHANGED <<clock, fault>>

\* create's save, writing the record at the key of the id create was
\* entered with.
create_save_stale_key(p) ==
  /\ pc[p] = "save"
  /\ LET r == session[p][1]
         row == from_session(r) IN
     /\ db' = upsert(db, to_string(cand[p][1]), row.val)
     /\ ret' = [ret EXCEPT ![p] =
                  Call("create", <<r, cand[p][1]>>, Ok(Unit),
                       Met(db, to_string(cand[p][1]), row.val))]
  /\ pc' = [pc EXCEPT ![p] = "idle"]
  /\ session' = [session EXCEPT ![p] = None]
  /\ cand' = [cand EXCEPT ![p] = None]
  /\ UNCHANGED <<clock, fault>>

\* self.save(session).await at the end of create.
create_save(p) ==
  /\ pc[p] = "save"
  /\ LET r == session[p][1]
         row == from_session(r) IN
     IF ~row.ok
     THEN /\ db' = db
          /\ ret' = [ret EXCEPT ![p] =
                       Call("create", <<r, cand[p][1]>>, Err(row.err), None)]
          /\ fault' = fault
     ELSE IF fault
     THEN /\ db' = db
          /\ ret' = [ret EXCEPT ![p] =
                       Call("create", <<r, cand[p][1]>>, Err("Backend"), Some("save"))]
          /\ fault' = FALSE
     ELSE /\ db' = upsert(db, to_string(r.id), row.val)
          /\ ret' = [ret EXCEPT ![p] =
                       Call("create", <<r, cand[p][1]>>, Ok(Unit),
                            Met(db, to_string(r.id), row.val))]
          /\ fault' = fault
  /\ pc' = [pc EXCEPT ![p] = "idle"]
  /\ session' = [session EXCEPT ![p] = None]
  /\ cand' = [cand EXCEPT ![p] = None]
  /\ UNCHANGED clock

\* Time passes.
tick ==
  /\ clock < MaxClock
  /\ clock' = clock + 1
  /\ UNCHANGED <<db, pc, session, cand, ret, fault>>

\* The backend, or the connection to it, breaks: the next call it receives
\* fails, and leaves the table as it is.
backend_breaks ==
  /\ ~fault
  /\ fault' = TRUE
  /\ UNCHANGED <<db, clock, pc, session, cand, ret>>

\* A row written to the table by another client of the database, whose
\* data is not a payload rmp_serde produced: a truncated payload, or one
\* with a marker that is not the array marker.
Truncated == {SubSeq(to_vec(r).val, 1, n) : r \in Records, n \in 0..MaxTrunc}
Retagged(bytes) == [bytes EXCEPT ![1] = NilTag]
Seconds == {unix_timestamp(t) : t \in Instants}

foreign_write(id, bytes, secs) ==
  /\ db' = upsert(db, to_string(id), [data |-> bytes, expiry_date |-> secs])
  /\ UNCHANGED <<clock, pc, session, cand, ret, fault>>

\* The other client overwrites the marker of the payload of an existing row.
foreign_retag(id) ==
  /\ db[to_string(id)] # None
  /\ Len(db[to_string(id)][1].data) > 0
  /\ foreign_write(id, Retagged(db[to_string(id)][1].data),
                   db[to_string(id)][1].expiry_date)

\* --------------------------------------------------------- specifications
\* One caller using the store, one call at a time.
Caller == {1}

Next ==
  \/ \E p \in Caller, r \in Records : save(p, r)
  \/ \E p \in Caller, id \in Ids : load(p, id)
  \/ \E p \in Caller, id \in Ids : delete(p, id)
  \/ \E p \in Caller : delete_expired(p)
  \/ \E p \in Caller, r \in Records : create_call(p, r)
  \/ \E p \in Caller : create_probe(p)
  \/ \E p \in Caller : create_save(p)
  \/ tick

Spec == Init /\ [][Next]_vars

\* One caller, and another client of the database that overwrites the
\* marker of a row's payload or writes a row with a truncated payload.  The
\* caller's records carry no data.
PlainRecords == {r \in Records : r.data = {}}

NextCorrupt ==
  \/ \E p \in Caller, r \in PlainRecords : save(p, r)
  \/ \E p \in Caller, id \in Ids : load(p, id)
  \/ \E p \in Caller, id \in Ids : delete(p, id)
  \/ \E p \in Caller : delete_expired(p)
  \/ \E id \in Ids : foreign_retag(id)
  \/ \E id \in Ids, bytes \in Truncated, secs \in Seconds :
       foreign_write(id, bytes, secs)
  \/ tick

SpecCorrupt == Init /\ [][NextCorrupt]_vars

\* Two callers sharing the store; their calls interleave at every backend
\* call.  Caller p's records carry the p-th value, and expire one tick
\* into second 1 or at the last instant.
ValueOf == <<"value", "new value">>
ConcRecords(p) ==
  {r \in Records : /\ r.data = {<<"key", ValueOf[p]>>}
                   /\ r.expiry_date \in {Res + 1, MaxTick}}

NextConc ==
  \/ \E p \in Procs : \E r \in ConcRecords(p) : save(p, r)
  \/ \E p \in Procs, id \in Ids : load(p, id)
  \/ \E p \in Procs, id \in Ids : delete(p, id)
  \/ \E p \in Procs : delete_expired(p)
  \/ \E p \in Procs : \E r \in ConcRecords(p) : create_call(p, r)
  \/ \E p \in Procs : create_probe(p)
  \/ \E p \in Procs : create_save(p)
  \/ tick

SpecConc == Init /\ [][NextConc]_vars

\* One caller of a store whose backend can fail a call, saving records some
\* of which hold a value that cannot be serialized.
BadRecords ==
  [id : Ids, data : {{<<"key", Unserializable>>}}, expiry_date : {MaxTick}]
FailRecords == {r \in PlainRecords : r.expiry_date \in {Res, MaxTick}} \cup BadRecords

NextFail ==
  \/ \E p \in Caller, r \in FailRecords : save(p, r)
  \/ \E p \in Caller, id \in Ids : load(p, id)
  \/ \E p \in Caller, id \in Ids : delete(p, id)
  \/ \E p \in Caller : delete_expired(p)
  \/ \E p \in Caller, r \in FailRecords : create_call(p, r)
  \/ \E p \in Caller : create_probe(p)
  \/ \E p \in Caller : create_save(p)
  \/ backend_breaks
  \/ tick

SpecFail == Init /\ [][NextFail]_vars

\* One caller whose backend round-trips all return: a create that has been
\* entered takes its next step, the probe or the save, in the end.  Its
\* records carry no data and expire at the last instant.
LiveRecords == {r \in PlainRecords : r.expiry_date = MaxTick}

NextLive ==
  \/ \E p \in Caller, r \in LiveRecords : save(p, r)
  \/ \E p \in Caller, id \in Ids : load(p, id)
  \/ \E p \in Caller, id \in Ids : delete(p, id)
  \/ \E p \in Caller : delete_expired(p)
  \/ \E p \in Caller, r \in LiveRecords : create_call(p, r)
  \/ \E p \in Caller : create_probe(p)
  \/ \E p \in Caller : create_save(p)
  \/ tick

SpecLive ==
  /\ Init /\ [][NextLive]_vars
  /\ \A p \in Caller : WF_vars(create_probe(p)) /\ WF_vars(create_save(p))

\* One caller, and a task that calls delete_expired on a clone of the store
\* again and again, as continuously_delete_expired does on its timer; the
\* timer fires in the end, each time.  The caller's records carry no data
\* and expire at the start of second 0 or 1 or at the last instant.
Sweeper == 2
SweepRecords == {r \in PlainRecords : r.expiry_date \in {0, Res, MaxTick}}

NextSweep ==
  \/ \E p \in Caller, r \in SweepRecords : save(p, r)
  \/ \E p \in Caller, id \in Ids : load(p, id)
  \/ \E p \in Caller, id \in Ids : delete(p, id)
  \/ \E p \in Caller, r \in SweepRecords : create_call(p, r)
  \/ \E p \in Caller : create_probe(p)
  \/ \E p \in Caller : create_save(p)
  \/ delete_expired(Sweeper)
  \/ tick

SpecSweep == Init /\ [][NextSweep]_vars /\ WF_vars(delete_expired(Sweeper))

\* ----------------------------------------------------------------- claims
\* The step is caller p's call of the operation, with the argument that
\* ret'[p] records.
IsSave(p) == ret'[p].op = "save" /\ save(p, ret'[p].arg[1])
IsLoad(p) == ret'[p].op = "load" /\ load(p, ret'[p].arg[1])
IsDelete(p) == ret'[p].op = "delete" /\ delete(p, ret'[p].arg[1])
\* Caller p's latest call was save(r), and it succeeded.
Saved(p, r) ==
  ret[p].op = "save" /\ ret[p].arg = Some(r) /\ ret[p].res = Ok(Unit)
\* Caller p's latest call was load(id), and it returned res.
Loaded(p, id, res) ==
  ret[p].op = "load" /\ ret[p].arg = Some(id) /\ ret[p].res = res
Row(r) == Some(from_session(r).val)
Now == time_unix_now(clock)

\* C1 as stated: when a caller's save(R) is followed by its load(R.id), and
\* the clock is still before R's expiry instant, load returns R.
C1_RoundTripBeforeExpiryInstant ==
  [][\A p \in Caller :
       IsLoad(p) =>
         \A r \in Records :
           (Saved(p, r) /\ ret'[p].arg = Some(r.id) /\ clock < r.expiry_date)
             => ret'[p].res = Ok(Some(r))]_vars

\* C1 amended: when a caller's save(R) is followed by its load(R.id), and
\* the whole second of R's expiry is after the whole second of the clock,
\* load returns a record equal to R in id, data and expiry instant; the
\* same holds of any load that finds the row save(R) wrote.
C1_RoundTrip ==
  [][\A p \in Caller :
       IsLoad(p) =>
         \A r \in Records :
           (/\ ret'[p].arg = Some(r.id)
            /\ Saved(p, r) \/ db[to_string(r.id)] = Row(r)
            /\ unix_timestamp(r.expiry_date) > Now)
             => ret'[p].res = Ok(Some(r))]_vars

\* A load has just returned the record whose row is in the table; the
\* record carries data and a sub-second expiry.
C1_Witness ==
  \E p \in Caller, r \in Records :
    /\ Loaded(p, r.id, Ok(Some(r)))
    /\ db[to_string(r.id)] = Row(r)
    /\ r.data # {}
    /\ r.expiry_date % Res # 0

\* C2: when a caller's save(R) is followed by its load(R.id) with the clock
\* at or past R's expiry instant, load returns absent while the row save
\* wrote is still in the table; and no load changes the table.
C2_ExpiryOnRead ==
  [][\A p \in Caller :
       IsLoad(p) =>
         /\ db' = db
         /\ \A r \in Records :
              (Saved(p, r) /\ ret'[p].arg = Some(r.id) /\ r.expiry_date <= clock)
                => /\ ret'[p].res = Ok(None)
                   /\ db[to_string(r.id)] = Row(r)
                   /\ db'[to_string(r.id)] = Row(r)]_vars

\* A load has just returned absent for an id whose row is in the table and
\* expires in the current second.
C2_Witness ==
  \E p \in Caller, r \in Records :
    /\ Loaded(p, r.id, Ok(None))
    /\ db[to_string(r.id)] = Row(r)
    /\ unix_timestamp(r.expiry_date) = Now

\* C3: a sweep at time T keeps exactly the rows whose expiry integer is
\* greater than T, each unchanged, and removes every other row; a load of
\* a removed id at T returns absent on the table before the sweep and on
\* the table after it.
C3_SweepExact ==
  [][\A p \in Caller :
       (ret'[p].op = "delete_expired" /\ delete_expired(p)) =>
         \A id \in Ids :
           LET k == to_string(id) IN
           /\ (db[k] # None /\ db[k][1].expiry_date > Now) => db'[k] = db[k]
           /\ (db[k] # None /\ db[k][1].expiry_date <= Now) =>
                /\ db'[k] = None
                /\ load_value(db, id, clock) = Ok(None)
                /\ load_value(db', id, clock) = Ok(None)
           /\ db[k] = None => db'[k] = None]_vars

\* A sweep has run in the current second T >= 1, deleted a row whose
\* expiry integer is exactly T, and left a row whose expiry integer is T + 1.
C3_Witness ==
  \E p \in Caller :
    /\ ret[p].op = "delete_expired"
    /\ ret[p].arg = Some(Now)
    /\ Now >= 1
    /\ Now \in ret[p].saw[1]
    /\ \E k \in Keys : db[k] # None /\ db[k][1].expiry_date = Now + 1
    /\ \E k \in Keys : db[k] = None

\* C4: with no other caller at work, a create entered with candidate id X
\* ends with the record stored under an id that had no row, so under an id
\* other than X when X had a row (expired or not); the table is otherwise
\* as it was when create was entered, the row at X included.
C4_CreateAvoidsCollision ==
  [][\A p \in Caller :
       /\ (ret'[p].op = "create" /\ create_save(p)) =>
            LET r == session[p][1]
                x == cand[p][1]
            IN  /\ ret'[p].arg = <<r, x>>
                /\ ret'[p].res = Ok(Unit)
                /\ db[to_string(r.id)] = None
                /\ (db[to_string(x)] # None => r.id # x)
                /\ db'[to_string(r.id)] = Row(r)
                /\ \A k \in Keys \ {to_string(r.id)} : db'[k] = db[k]
       /\ (pc[p] # "idle" /\ pc'[p] # "idle") => db' = db]_vars

\* A create entered with the id of an expired row that no sweep has removed
\* has returned with another id, and both rows are in the table.
C4_Witness ==
  \E p \in Caller, r \in Records, x \in Ids :
    /\ ret[p].op = "create" /\ ret[p].arg = <<r, x>> /\ ret[p].res = Ok(Unit)
    /\ r.id # x
    /\ db[to_string(x)] # None
    /\ db[to_string(x)][1].expiry_date <= Now
    /\ db[to_string(r.id)] = Row(r)

\* C5: when a caller's save(R1) is followed by its save(R2) with the same id
\* and another data or expiry, the row at that id is encode(R2), blob and
\* expiry integer, and the other rows are unchanged; a load that follows
\* save(R2) while the row is unexpired returns R2, data and expiry of R2 only.
C5_UpdateOverwrites ==
  [][\A p \in Caller :
       /\ (IsSave(p) /\ ret[p].op = "save" /\ ret[p].res = Ok(Unit)
             /\ ret[p].arg[1].id = ret'[p].arg[1].id
             /\ ret[p].arg[1] # ret'[p].arg[1]) =>
            LET r2 == ret'[p].arg[1] IN
            /\ ret'[p].res = Ok(Unit)
            /\ db'[to_string(r2.id)] = Row(r2)
            /\ db'[to_string(r2.id)][1].expiry_date
                 = unix_timestamp(r2.expiry_date)
            /\ \A k \in Keys \ {to_string(r2.id)} : db'[k] = db[k]
       /\ (IsLoad(p) /\ ret[p].op = "save" /\ ret[p].saw = Some("different")
             /\ ret'[p].arg = Some(ret[p].arg[1].id)
             /\ db[to_string(ret[p].arg[1].id)][1].expiry_date > Now) =>
            /\ ret'[p].res = Ok(Some(ret[p].arg[1]))
            /\ ret'[p].res.val[1].data = ret[p].arg[1].data]_vars

\* A save has replaced a row that held another record of the same id, one
\* with data, by a record without data.
C5_Witness ==
  \E p \in Caller, r \in Records :
    /\ Saved(p, r) /\ ret[p].saw = Some("different")
    /\ r.data = {}
    /\ db[to_string(r.id)] = Row(r)

\* C6: delete(id) returns success whether or not the id has a row, leaves
\* the id without a row and every other row unchanged; a delete(id) that
\* follows the caller's delete(id) changes nothing in the table and returns
\* what the first returned.
C6_DeleteIdempotent ==
  [][\A p \in Caller :
       IsDelete(p) =>
         LET id == ret'[p].arg[1] IN
         /\ ret'[p].res = Ok(Unit)
         /\ db'[to_string(id)] = None
         /\ \A k \in Keys \ {to_string(id)} : db'[k] = db[k]
         /\ ((ret[p].op = "delete" /\ ret[p].arg = Some(id))
               => (db' = db /\ ret'[p].res = ret[p].res))]_vars

\* A delete of an id without a row has returned success, while the other
\* id has a row.
C6_Witness ==
  \E p \in Caller, id \in Ids :
    /\ ret[p].op = "delete" /\ ret[p].arg = Some(id)
    /\ ret[p].saw = Some("absent") /\ ret[p].res = Ok(Unit)
    /\ db[to_string(id)] = None
    /\ \E k \in Keys : db[k] # None

\* C7: a save(R) that follows the caller's save(R), or that finds the row
\* save(R) writes, leaves the table exactly as it was: the same rows, the
\* same blob and expiry integer at R.id.
C7_SaveIdempotent ==
  [][\A p \in Caller :
       (IsSave(p) /\ (\/ Saved(p, ret'[p].arg[1])
                      \/ db[to_string(ret'[p].arg[1].id)] = Row(ret'[p].arg[1])))
         => db' = db /\ db'[to_string(ret'[p].arg[1].id)] = Row(ret'[p].arg[1])]_vars

\* A save has met the very row it writes, and the other id has a row too.
C7_Witness ==
  \E p \in Caller, r \in Records :
    /\ Saved(p, r) /\ ret[p].saw = Some("same")
    /\ db[to_string(r.id)] = Row(r)
    /\ \E k \in Keys \ {to_string(r.id)} : db[k] # None

\* C8 as stated: a load of a key whose row has a blob that does not decode
\* fails with a decode error and leaves the row as it is.
C8_CorruptAlwaysFails ==
  [][\A p \in Caller :
       (IsLoad(p) /\ db[to_string(ret'[p].arg[1])] # None
          /\ ~to_session(db[to_string(ret'[p].arg[1])][1]).ok)
         => ret'[p].res = Err("Decode") /\ db' = db]_vars

\* C8 amended: a load of a key whose row has a blob that does not decode
\* and an expiry integer greater than the current unix time fails with a
\* decode error; when the expiry integer is not greater, load returns
\* absent; in both cases the row stays in the table unchanged.
C8_CorruptUnexpiredFails ==
  [][\A p \in Caller :
       (IsLoad(p) /\ db[to_string(ret'[p].arg[1])] # None
          /\ ~to_session(db[to_string(ret'[p].arg[1])][1]).ok)
         => LET row == db[to_string(ret'[p].arg[1])][1] IN
            /\ row.expiry_date > Now => ret'[p].res = Err("Decode")
            /\ row.expiry_date <= Now => ret'[p].res = Ok(None)
            /\ db' = db]_vars

\* A load has failed with a decode error on a row that carries a whole
\* payload under a marker that is not the array marker.
C8_Witness ==
  \E p \in Caller, id \in Ids :
    /\ Loaded(p, id, Err("Decode"))
    /\ db[to_string(id)] # None
    /\ Len(db[to_string(id)][1].data) = 4
    /\ db[to_string(id)][1].data[1] = NilTag

\* C9: in every state that create, save, delete and delete_expired calls of
\* two callers reach in any interleaving, each row's expiry integer is the
\* unix seconds of the expiry of the record its blob decodes to.
C9_ExpiryColumnMatchesBlob ==
  \A k \in Keys :
    db[k] # None =>
      /\ to_session(db[k][1]).ok
      /\ db[k][1].expiry_date
           = unix_timestamp(to_session(db[k][1]).val.expiry_date)

\* Both callers have written a row, one by create and one by save, and one
\* of the rows holds a record whose expiry has a sub-second part.
C9_Witness ==
  /\ \A k \in Keys : db[k] # None
  /\ \E p, q \in Procs :
       /\ ret[p].op = "create" /\ ret[q].op = "save"
       /\ ret[p].saw = Some("absent")
  /\ \E k \in Keys : to_session(db[k][1]).val.expiry_date % Res # 0

\* C10: a load of an id without a row returns success with absent, and so
\* does a load of an id whose row is in the table with an expiry integer
\* not greater than the current unix time: the two results are the same.
C10_NotFoundIsAbsent ==
  [][\A p \in Caller :
       IsLoad(p) =>
         LET k == to_string(ret'[p].arg[1]) IN
         /\ db[k] = None => ret'[p].res = Ok(None)
         /\ (db[k] # None /\ db[k][1].expiry_date <= Now)
              => ret'[p].res = load_value(delete_row(db, k), ret'[p].arg[1], clock)]_vars

\* A load of an id that has no row has returned absent while the other id
\* has a row.
C10_Witness ==
  \E p \in Caller, id \in Ids :
    /\ Loaded(p, id, Ok(None))
    /\ db[to_string(id)] = None
    /\ \E k \in Keys : db[k] # None

\* C11: a save of a record that holds a value that cannot be serialized
\* returns an error of kind Encode, makes no backend call (a fault of the
\* backend stays pending) and leaves the table as it was.
C11_EncodeFailureIsEncodeError ==
  [][\A p \in Caller :
       (IsSave(p) /\ ~to_vec(ret'[p].arg[1]).ok) =>
         /\ ret'[p].res = Err("Encode")
         /\ db' = db
         /\ fault' = fault]_vars

\* C12: when the backend fails a call, the operation that made the call
\* returns an error of kind Backend in that step: the caller is idle again,
\* with no retry and no further call; when the failed call is create's
\* probe, the create returns the error without its save, and the table is
\* as it was.
C12_BackendFailurePropagates ==
  [][\A p \in Caller :
       (fault /\ ~fault') =>
         /\ pc'[p] = "idle"
         /\ ret'[p].op \in {"save", "load", "delete", "delete_expired", "create"}
         /\ ret'[p].res = Err("Backend")
         /\ pc[p] = "probe" => (ret'[p].op = "create" /\ db' = db)]_vars

\* A create has returned the backend's error from its probe, for an id
\* with no row, and the table still has no row for that id; and a row of
\* the other id, written before, is still there.
C12_Witness ==
  \E p \in Caller :
    /\ ret[p].op = "create"
    /\ ret[p].res = Err("Backend")
    /\ ret[p].saw = Some("probe")
    /\ pc[p] = "idle"
    /\ db[to_string(ret[p].arg[1].id)] = None
    /\ \E k \in Keys : db[k] # None

\* C13: a create whose probe found its id free, and whose save then meets
\* a row that another caller wrote at that id in between, returns success
\* with that id and replaces the row by its own record: the record written
\* first is lost.  Two creates entered with the same free id can
\* interleave so (C13_Witness).
C13_CreateRaceOverwrites ==
  [][\A p \in Procs :
       (pc[p] = "save" /\ pc'[p] = "idle"
          /\ db[to_string(session[p][1].id)] # None) =>
         LET r == session[p][1] IN
         /\ ret'[p].op = "create"
         /\ ret'[p].res = Ok(Unit)
         /\ ret'[p].arg[1] = r
         /\ db'[to_string(r.id)] = Row(r)
         /\ \A k \in Keys : k # to_string(r.id) => db'[k] = db[k]]_vars

\* Two creates entered with the same id X, neither of which regenerated
\* it, have both returned success with id X: the first save met no row,
\* the second met the first's row, and the row at X is the second's record,
\* which differs from the first's.
C13_Witness ==
  \E p, q \in Procs, X \in Ids :
    /\ p # q
    /\ pc[p] = "idle" /\ pc[q] = "idle"
    /\ ret[p].op = "create" /\ ret[q].op = "create"
    /\ ret[p].res = Ok(Unit) /\ ret[q].res = Ok(Unit)
    /\ ret[p].arg[1].id = X /\ ret[q].arg[1].id = X
    /\ ret[p].arg[2] = X /\ ret[q].arg[2] = X
    /\ ret[p].saw = Some("absent") /\ ret[q].saw = Some("different")
    /\ ret[p].arg[1] # ret[q].arg[1]
    /\ db[to_string(X)] = Row(ret[q].arg[1])
    /\ db[to_string(X)] # Row(ret[p].arg[1])

\* The row at key k is whole: its payload decodes to a record R of that
\* key, and the row is the one from_session makes of R, payload and expiry
\* integer both.
Whole(k) ==
  LET got == from_slice(db[k][1].data) IN
  /\ got.ok
  /\ to_string(got.val.id) = k
  /\ db[k] = Row(got.val)

\* A step that changes the row at key k is one backend call, and the row
\* after it is that call's: the record of the save or of the create's
\* save, or no row after a delete of k or a sweep of an expired row.
LastWriter(k) ==
  \/ \E p \in Procs :
       /\ IsSave(p) /\ ret'[p].res = Ok(Unit)
       /\ to_string(ret'[p].arg[1].id) = k
       /\ db'[k] = Row(ret'[p].arg[1])
  \/ \E p \in Procs :
       /\ pc[p] = "save" /\ create_save(p)
       /\ to_string(session[p][1].id) = k
       /\ db'[k] = Row(session[p][1])
  \/ \E p \in Procs, id \in Ids :
       /\ ret'[p].op = "delete" /\ delete(p, id)
       /\ to_string(id) = k /\ db'[k] = None
  \/ \E p \in Procs :
       /\ ret'[p].op = "delete_expired" /\ delete_expired(p)
       /\ db[k][1].expiry_date <= Now /\ db'[k] = None

\* C14: under any interleaving of two callers' saves, creates, deletes and
\* sweeps, every row is at every moment whole (the payload and the expiry
\* integer of one record, never of two), and every change of a row is the
\* effect of one call, so that the row is what the call that executed last
\* on its key left.
C14_LastWriterWins ==
  /\ [](\A k \in Keys : db[k] # None => Whole(k))
  /\ [][\A k \in Keys : db'[k] # db[k] => LastWriter(k)]_vars

\* Both callers have saved a record under the same id, with different data
\* and different expiry seconds; the second save met the first's row, and
\* the row is the second's record.
C14_Witness ==
  \E p, q \in Procs :
    /\ p # q
    /\ ret[p].op = "save" /\ ret[q].op = "save"
    /\ ret[p].res = Ok(Unit) /\ ret[q].res = Ok(Unit)
    /\ ret[p].arg[1].id = ret[q].arg[1].id
    /\ unix_timestamp(ret[p].arg[1].expiry_date)
         # unix_timestamp(ret[q].arg[1].expiry_date)
    /\ ret[q].saw = Some("different")
    /\ db[to_string(ret[q].arg[1].id)] = Row(ret[q].arg[1])

\* The states of a session id: its key has a row whose expiry integer is
\* not greater than the unix time of now.
PresentExpired(table, now, k) ==
  table[k] # None /\ table[k][1].expiry_date <= time_unix_now(now)
\* The step is caller p's delete of the id of key k, or its sweep.
IsDeleteOf(p, k) == IsDelete(p) /\ to_string(ret'[p].arg[1]) = k
IsSweep(p) == ret'[p].op = "delete_expired" /\ delete_expired(p)
\* The step is caller p's save, or the save that ends its create, of a
\* record of key k.
IsWriteOf(p, k) ==
  \/ IsSave(p) /\ to_string(ret'[p].arg[1].id) = k
  \/ pc[p] = "save" /\ create_save(p) /\ to_string(session[p][1].id) = k

\* C15 as stated: an id in present(expired) stays there, unchanged, unless
\* a delete or a sweep makes it absent: no load, save or create and no
\* passage of time takes it out of present(expired).
C15_ExpiredLeavesOnlyByDeletion ==
  [][\A k \in Keys :
       PresentExpired(db, clock, k) =>
         \/ PresentExpired(db', clock', k)
         \/ /\ db'[k] = None
            /\ \E p \in Caller : IsDeleteOf(p, k) \/ IsSweep(p)]_vars

\* C15: an id in present(expired) becomes absent only by a delete of it or
\* by a sweep; a load, a create's probe and the passage of time leave its
\* row as it is, in present(expired); the one other step that changes the
\* row is a save of a record of that id, which replaces it.
C15_ExpiredToAbsentOnlyByDeletion ==
  [][\A k \in Keys :
       PresentExpired(db, clock, k) =>
         /\ db'[k] = None => \E p \in Caller : IsDeleteOf(p, k) \/ IsSweep(p)
         /\ (db'[k] # None /\ db'[k] # db[k]) => \E p \in Caller : IsWriteOf(p, k)
         /\ db'[k] = db[k] => PresentExpired(db', clock', k)
         /\ (\E p \in Caller : IsLoad(p) \/ (pc[p] = "probe" /\ create_probe(p)))
              => db'[k] = db[k]
         /\ clock' # clock => db'[k] = db[k]]_vars

\* A row in present(expired) has been loaded, the load returned absent, the
\* clock has gone on a whole second past the row's expiry second, and the
\* row is still in the table.
C15_Witness ==
  \E p \in Caller, id \in Ids :
    /\ Loaded(p, id, Ok(None))
    /\ db[to_string(id)] # None
    /\ db[to_string(id)][1].expiry_date < Now

\* Caller p is in create's loop, probing an id that has a row.
ProbingTaken(p) ==
  pc[p] = "probe" /\ select(db, to_string(session[p][1].id)) # None

\* load, save, delete and delete_expired are one backend call: the caller
\* is idle before and after the call's step.  In create the id is
\* regenerated only by a probe that finds a row, a probe that finds none
\* goes on to the save with the record as it is and without a write, and
\* the save is one write at the record's key that ends the create.
OneCallEach(p) ==
  /\ (pc[p] = "idle" /\ ret'[p] # ret[p] /\ ret'[p].op # "pending")
       => /\ pc'[p] = "idle"
          /\ ret'[p].op \in {"save", "load", "delete", "delete_expired"}
  /\ (pc[p] = "probe" /\ session'[p] # session[p])
       => /\ ProbingTaken(p)
          /\ pc'[p] = "probe"
          /\ session'[p][1] = [session[p][1] EXCEPT !.id = session'[p][1].id]
          /\ db' = db
  /\ (pc[p] = "probe" /\ pc'[p] # "probe")
       => /\ ~ProbingTaken(p)
          /\ pc'[p] = "save"
          /\ session'[p] = session[p]
          /\ db' = db
  /\ (pc[p] = "save" /\ pc'[p] # "save")
       => /\ pc'[p] = "idle"
          /\ ret'[p].op = "create"
          /\ ret'[p].res = Ok(Unit)
          /\ db' = [db EXCEPT ![to_string(session[p][1].id)] = Row(session[p][1])]

C17_EventualEviction ==
  /\ [][(ret'[Sweeper].op = "delete_expired" /\ delete_expired(Sweeper)) =>
          \A k \in Keys :
            (db[k] # None /\ db[k][1].expiry_date * Res > clock)
              => db'[k] = db[k]]_vars
  /\ \A k \in Keys :
       PresentExpired(db, clock, k)
         ~> (db[k] = None \/ ~PresentExpired(db, clock, k))

\* The task's latest sweep removed a row that had expired, no row that has
\* expired is left, and a row that the caller saved with an expiry in the
\* future is in the table.
C17_Witness ==
  /\ ret[Sweeper].op = "delete_expired"
  /\ ret[Sweeper].res = Ok(Unit)
  /\ ret[Sweeper].saw # None /\ ret[Sweeper].saw[1] # {}
  /\ \A k \in Keys : ~PresentExpired(db, clock, k)
  /\ \E p \in Caller, r \in SweepRecords :
       /\ Saved(p, r)
       /\ db[to_string(r.id)] = Row(r)
       /\ r.expiry_date > clock

\* C18: for every row whose payload decodes and every instant t, load at t
\* returns the row's record exactly when a sweep at t keeps the row, and
\* returns absent exactly when the sweep removes it: no row is both
\* returned and swept, and none is neither.
C18_ReadAndSweepComplement ==
  \A id \in Ids, t \in Instants :
    LET k == to_string(id) IN
    (db[k] # None /\ to_session(db[k][1]).ok) =>
      LET kept == delete_where_expired(db, t)[k]
          got == load_value(db, id, t)
      IN  /\ kept \in {None, db[k]}
          /\ got \in {Ok(None), Ok(Some(to_session(db[k][1]).val))}
          /\ (got = Ok(Some(to_session(db[k][1]).val))) <=> (kept = db[k])
          /\ (got = Ok(None)) <=> (kept = None)

\* The table holds a row whose expiry integer is the unix time of now and
\* a row whose expiry integer is later, and a load of the first has
\* returned absent: a sweep now removes the first and keeps the second.
C18_Witness ==
  \E p \in Caller, id \in Ids, other \in Ids :
    /\ Loaded(p, id, Ok(None))
    /\ db[to_string(id)] # None /\ db[to_string(other)] # None
    /\ db[to_string(id)][1].expiry_date = Now
    /\ db[to_string(other)][1].expiry_date > Now
    /\ delete_where_expired(db, clock)[to_string(id)] = None
    /\ delete_where_expired(db, clock)[to_string(other)] = db[to_string(other)]

\* C19: every row's key is the text of the id in the record its payload
\* decodes to, and every load that returned a record returned one whose id
\* is the id that was asked for.
C19_KeyIsPayloadId ==
  /\ \A k \in Keys :
       db[k] # None =>
         /\ to_session(db[k][1]).ok
         /\ to_string(to_session(db[k][1]).val.id) = k
  /\ \A p \in Procs :
       (ret[p].op = "load" /\ ret[p].res.ok /\ ret[p].res.val # None)
         => ret[p].res.val[1].id = ret[p].arg[1]

\* A create has regenerated its id and written its record, and the other
\* caller's load of the new id has returned that record, while the id the
\* create was entered with has its own row.
C19_Witness ==
  \E p, q \in Procs :
    /\ p # q
    /\ ret[p].op = "create" /\ ret[p].res = Ok(Unit)
    /\ ret[p].arg[1].id # ret[p].arg[2]
    /\ Loaded(q, ret[p].arg[1].id, Ok(Some(ret[p].arg[1])))
    /\ db[to_string(ret[p].arg[1].id)] = Row(ret[p].arg[1])
    /\ db[to_string(ret[p].arg[2])] # None

\* C20: with the expiry instant and the clock in ticks of 1/Res second, and
\* both cut to whole seconds before they are compared, a load never returns
\* a record whose expiry instant is at or before the instant of the load.
C20_TruncationConservative ==
  [][\A p \in Caller :
       (IsLoad(p) /\ ret'[p].res.ok /\ ret'[p].res.val # None) =>
         LET s == ret'[p].res.val[1] IN
         /\ s.expiry_date > clock
         /\ unix_timestamp(s.expiry_date) > time_unix_now(clock)]_vars

\* A load has returned a record whose expiry instant has a sub-second
\* part, at an instant that has a sub-second part and is still in a
\* second before the one the record expires in.
C20_Witness ==
  \E p \in Caller, id \in Ids :
    /\ ret[p].op = "load" /\ ret[p].arg = Some(id)
    /\ ret[p].res.ok /\ ret[p].res.val # None
    /\ ret[p].res.val[1].expiry_date % Res # 0
    /\ clock % Res # 0
    /\ db[to_string(id)] = Row(ret[p].res.val[1])
    /\ unix_timestamp(ret[p].res.val[1].expiry_date) > Now

====
